---- MODULE Spec2Model ----
(***************************************************************************)
(* A model of travis_magaluk_coding_exercise.py: the batch pipeline        *)
(* generate_excel, which reads a session-count table and a cart-add table, *)
(* normalizes their months (clean_tables), builds four report tables       *)
(* (create_month_device, create_browser_device + sort + [:20],             *)
(* create_mtm_compare, create_month_device_totals) and writes them as four *)
(* sheets.                                                                 *)
(*                                                                         *)
(* A DataFrame is a record [cols, rows, cats]: its column names, its rows  *)
(* in order, and the category list of its month_name column (empty while   *)
(* the column is not categorical).  A float is a record [k, n, d]: a       *)
(* reduced fraction n/d (k = "num"), NaN (k = "nan") or a signed infinity  *)
(* (k = "inf", n = 1 or -1); float rounding is not modelled.               *)
(***************************************************************************)
EXTENDS Integers, Sequences, FiniteSets, TLC

VARIABLES
    pc,                        \* position in generate_excel / main
    session_counts,            \* content of the session-count CSV (argument 1)
    adds_to_cart,              \* content of the cart-add CSV (argument 2)
    observed,                  \* the library's default for groupby(observed=...)
    sc,                        \* generate_excel's sc (the session DataFrame)
    adds,                      \* generate_excel's adds (the cart-add DataFrame)
    month_order,               \* clean_tables' month_order (line 36)
    month_device_agg,          \* generate_excel's four result tables
    browser,
    mtm_compare,
    month_device_with_totals,
    written                    \* sheets handed to the ExcelWriter, in order

vars == <<pc, session_counts, adds_to_cart, observed, sc, adds, month_order,
          month_device_agg, browser, mtm_compare, month_device_with_totals, written>>

\* ------------------------------------------------------------------ bounds

\* Largest number of rows of the session-count CSV.
MaxRows == 4

\* ------------------------------------------------------- sequence helpers

Range(s) == {s[i] : i \in 1..Len(s)}

Min(S) == CHOOSE x \in S : \A y \in S : x <= y

RECURSIVE SumSeq(_)
SumSeq(s) == IF s = <<>> THEN 0 ELSE Head(s) + SumSeq(Tail(s))

\* Series.unique(): the distinct values of s in order of first appearance.
RECURSIVE Unique(_)
Unique(s) ==
    IF s = <<>> THEN <<>>
    ELSE LET r == Unique(SubSeq(s, 1, Len(s) - 1))
             x == s[Len(s)]
         IN  IF x \in Range(r) THEN r ELSE Append(r, x)

\* Position of x in the sequence s (s holds x once).
IndexOf(s, x) == CHOOSE i \in 1..Len(s) : s[i] = x

\* A stable argsort of the integer keys (lexsort / mergesort): the positions
\* of keys in non-decreasing key order, equal keys in their original order.
RECURSIVE InsertByKey(_, _, _)
InsertByKey(ord, i, keys) ==
    IF ord = <<>> THEN <<i>>
    ELSE IF keys[i] < keys[Head(ord)] THEN <<i>> \o ord
         ELSE <<Head(ord)>> \o InsertByKey(Tail(ord), i, keys)

RECURSIVE ArgSortUpTo(_, _)
ArgSortUpTo(keys, n) ==
    IF n = 0 THEN <<>> ELSE InsertByKey(ArgSortUpTo(keys, n - 1), n, keys)

ArgSort(keys) == ArgSortUpTo(keys, Len(keys))

\* s.iloc[ix]: the rows of s at the positions ix, in the order of ix.
Take(s, ix) == [i \in 1..Len(ix) |-> s[ix[i]]]

\* s[-k:], the last k elements of s (all of s when it has fewer).
LastK(s, k) == SubSeq(s, (IF Len(s) > k THEN Len(s) - k + 1 ELSE 1), Len(s))

\* s[:k], the first k elements of s (all of s when it has fewer).
FirstK(s, k) == SubSeq(s, 1, IF Len(s) > k THEN k ELSE Len(s))

\* The members of the finite set of integers S as an increasing sequence.
RECURSIVE SetToSeq(_)
SetToSeq(S) == IF S = {} THEN <<>> ELSE <<Min(S)>> \o SetToSeq(S \ {Min(S)})

\* ------------------------------------------------------------------ floats

Abs(x) == IF x < 0 THEN -x ELSE x

Sign(x) == IF x < 0 THEN -1 ELSE 1

RECURSIVE Gcd(_, _)
Gcd(a, b) == IF b = 0 THEN a ELSE Gcd(b, a % b)

NaN == [k |-> "nan", n |-> 0, d |-> 1]

Inf(s) == [k |-> "inf", n |-> s, d |-> 1]

\* The fraction a/b (b # 0) in lowest terms with a positive denominator.
Rat(a, b) ==
    LET g == Gcd(Abs(a), Abs(b))
    IN  [k |-> "num", n |-> (Sign(b) * a) \div g, d |-> Abs(b) \div g]

Flt(i) == Rat(i, 1)

IsNaN(x) == x.k = "nan"

\* x / y in floating point: 0/0 is NaN, a non-zero value over 0 is an infinity.
FDiv(x, y) ==
    IF x.k = "nan" \/ y.k = "nan" THEN NaN
    ELSE IF x.k = "inf" THEN (IF y.k = "inf" THEN NaN ELSE Inf(x.n * Sign(y.n)))
    ELSE IF y.k = "inf" THEN Flt(0)
    ELSE IF y.n = 0 THEN (IF x.n = 0 THEN NaN ELSE Inf(Sign(x.n)))
    ELSE Rat(x.n * y.d, x.d * y.n)

FAdd(x, y) ==
    IF x.k = "nan" \/ y.k = "nan" THEN NaN
    ELSE IF x.k = "inf" THEN (IF y.k = "inf" /\ y.n # x.n THEN NaN ELSE x)
    ELSE IF y.k = "inf" THEN y
    ELSE Rat(x.n * y.d + y.n * x.d, x.d * y.d)

FNeg(x) == IF x.k = "nan" THEN NaN ELSE [x EXCEPT !.n = -x.n]

FSub(x, y) == FAdd(x, FNeg(y))

FMul(x, y) ==
    IF x.k = "nan" \/ y.k = "nan" THEN NaN
    ELSE IF x.k = "inf" \/ y.k = "inf"
         THEN (IF x.n = 0 \/ y.n = 0 THEN NaN ELSE Inf(Sign(x.n) * Sign(y.n)))
    ELSE Rat(x.n * y.n, x.d * y.d)

\* fillna(0) on one cell.
FillNa0(x) == IF IsNaN(x) THEN Flt(0) ELSE x

\* sum() of a float column: NaN cells are skipped, an empty sum is 0.
RECURSIVE FSumSkipNa(_)
FSumSkipNa(s) ==
    IF s = <<>> THEN Flt(0)
    ELSE IF IsNaN(Head(s)) THEN FSumSkipNa(Tail(s))
         ELSE FAdd(Head(s), FSumSkipNa(Tail(s)))

\* ------------------------------------------------------------ text domains

\* strftime('%B') of month number m.
MonthNames == <<"January", "February", "March", "April", "May", "June", "July",
                "August", "September", "October", "November", "December">>

\* str.title() on the device categories of the inputs.
Title(s) ==
    CASE s = "desktop"  -> "Desktop"
      [] s = "mobile"   -> "Mobile"
      [] s = "tablet"   -> "Tablet"
      [] s = "smart tv" -> "Smart Tv"
      [] OTHER          -> s

\* The string order of the device categories and of the browsers (the order
\* a groupby puts its keys in).
SortedText == <<"Chrome", "Desktop", "Firefox", "Mobile", "Safari", "Smart Tv",
                "Tablet", "Total">>

TextLess(a, b) == IndexOf(SortedText, a) < IndexOf(SortedText, b)

NoCategory == "NaN"

\* ------------------------------------------------------------------ inputs

SessionCols == {"dim_date", "dim_deviceCategory", "dim_browser", "sessions",
                "transactions", "QTY"}

CartCols == {"dim_month", "dim_year", "addsToCart"}

SRow(date, dev, br, s, t, q) ==
    [dim_date |-> date, dim_deviceCategory |-> dev, dim_browser |-> br,
     sessions |-> s, transactions |-> t, QTY |-> q]

CRow(m, y, a) == [dim_month |-> m, dim_year |-> y, addsToCart |-> a]

\* The rows a session-count CSV is drawn from, in feed (chronological) order.
\* dim_date "M/D/YY" is the sequence of its '/'-separated tokens.
SessionCatalog ==
    << SRow(<<12, 1, 12>>, "desktop",  "Chrome",  1, 1, 1),
       SRow(<<6, 1, 13>>,  "desktop",  "Chrome",  2, 1, 1),
       SRow(<<6, 2, 13>>,  "mobile",   "Safari",  2, 1, 2),
       SRow(<<7, 1, 13>>,  "desktop",  "Chrome",  1, 1, 1),
       SRow(<<7, 2, 13>>,  "Mobile",   "Firefox", 1, 1, 1),
       SRow(<<7, 3, 13>>,  "smart tv", "Safari",  0, 1, 0),
       SRow(<<8, 1, 13>>,  "tablet",   "Chrome",  2, 0, 0),
       SRow(<<8, 2, 13>>,  "desktop",  "Firefox", 0, 0, 0),
       SRow(<<8, 3, 13>>,  "mobile",   "Safari",  3, 1, 2),
       SRow(<<9, 1, 13>>,  "desktop",  "Safari",  3, 1, 1),
       SRow(<<13, 1, 13>>, "desktop",  "Chrome",  1, 1, 1),
       SRow(<<7>>,         "desktop",  "Chrome",  1, 1, 1) >>

\* The cart-add CSVs of the model: one row per month, as the feed has them.
CartTables ==
    { <<>>,
      << CRow(6, 2013, 4), CRow(7, 2013, 2) >>,
      << CRow(7, 2013, 0), CRow(8, 2013, 6), CRow(9, 2013, 3) >>,
      << CRow(12, 2012, 1), CRow(6, 2013, 2), CRow(7, 2013, 5) >>,
      << CRow(8, 2013, 2), CRow(10, 2013, 1) >>,
      << CRow(14, 2013, 1) >> }

\* The session-count CSVs: every non-empty selection of at most MaxRows
\* catalog rows, in feed order.
SessionTables ==
    { [i \in 1..Len(ix) |-> SessionCatalog[ix[i]]] :
        ix \in { SetToSeq(S) : S \in { T \in SUBSET (1..Len(SessionCatalog)) :
                                         Cardinality(T) \in 1..MaxRows } } }

\* CSVs that lack one column.
ShortSessionCols == { SessionCols \ {c} : c \in {"dim_date", "sessions", "dim_browser"} }

ShortCartCols == { CartCols \ {c} : c \in {"dim_month", "addsToCart"} }

Csv(cols, rows) == [cols |-> cols, rows |-> rows]

NoFrame == [cols |-> {}, rows |-> <<>>, cats |-> <<>>]

NoMatrix == [columns |-> <<>>, index |-> <<>>, cell |-> <<>>]

Init ==
    /\ pc = "start"
    /\ observed \in BOOLEAN
    /\ \/ /\ session_counts \in { Csv(SessionCols, r) : r \in SessionTables }
          /\ adds_to_cart \in { Csv(CartCols, r) : r \in CartTables }
       \/ /\ session_counts \in { Csv(c, <<SessionCatalog[4]>>) : c \in ShortSessionCols }
          /\ adds_to_cart = Csv(CartCols, << CRow(7, 2013, 2) >>)
       \/ /\ session_counts = Csv(SessionCols, <<SessionCatalog[4]>>)
          /\ adds_to_cart \in { Csv(c, << CRow(7, 2013, 2) >>) : c \in ShortCartCols }
    /\ sc = NoFrame
    /\ adds = NoFrame
    /\ month_order = <<>>
    /\ month_device_agg = NoFrame
    /\ browser = NoFrame
    /\ mtm_compare = NoMatrix
    /\ month_device_with_totals = NoFrame
    /\ written = <<>>

\* ------------------------------------------------------------ clean_tables

\* map_month: pd.to_datetime(month_number, format='%m') raises outside 1..12.
MapMonthRaises(month_number) == month_number \notin 1..12

map_month(month_number) == MonthNames[month_number]

\* '20' + x.zfill(2), as an integer.
YearOf(yy) ==
    IF yy < 100 THEN 2000 + yy
    ELSE IF yy < 1000 THEN 20000 + yy ELSE 200000 + yy

\* pd.Categorical(values, categories): a value outside the categories is NaN.
AsCategory(v, categories) == IF v \in Range(categories) THEN v ELSE NoCategory

\* clean_tables raises: a column it reads is absent, a date has no third
\* '/'-token (x.zfill on NaN), or map_month raises on a month token.
CleanTablesRaises(s, c) ==
    \/ {"dim_date", "dim_deviceCategory"} \ s.cols # {}
    \/ \E i \in 1..Len(s.rows) : Len(s.rows[i].dim_date) < 3
    \/ \E i \in 1..Len(s.rows) : MapMonthRaises(s.rows[i].dim_date[1])
    \/ "dim_month" \notin c.cols
    \/ \E i \in 1..Len(c.rows) : MapMonthRaises(c.rows[i].dim_month)

\* session_cts after lines 24-29, month_name still a plain string column.
CleanSessionRow(r) ==
    [dim_deviceCategory |-> Title(r.dim_deviceCategory),
     dim_browser |-> r.dim_browser,
     sessions |-> r.sessions, transactions |-> r.transactions, QTY |-> r.QTY,
     Month |-> r.dim_date[1],
     Year |-> YearOf(r.dim_date[3]),
     month_name |-> map_month(r.dim_date[1])]

\* line 36: list(session_cts['month_name'].unique())
MonthOrderOf(s) == Unique([i \in 1..Len(s.rows) |-> map_month(s.rows[i].dim_date[1])])

CleanSession(s) ==
    [cols |-> s.cols \cup {"Month", "Year", "month_name"},
     rows |-> [i \in 1..Len(s.rows) |-> CleanSessionRow(s.rows[i])],
     cats |-> MonthOrderOf(s)]

CleanCart(c, order) ==
    [cols |-> (c.cols \ {"dim_year"}) \cup {"month_name", "Year"},
     rows |-> [i \in 1..Len(c.rows) |->
                 [dim_month |-> c.rows[i].dim_month,
                  Year |-> c.rows[i].dim_year,
                  addsToCart |-> c.rows[i].addsToCart,
                  month_name |-> AsCategory(map_month(c.rows[i].dim_month), order)]],
     cats |-> order]

Failed == pc' = "failed"

clean_tables ==
    /\ pc = "start"
    /\ ~CleanTablesRaises(session_counts, adds_to_cart)
    /\ sc' = CleanSession(session_counts)
    /\ month_order' = MonthOrderOf(session_counts)
    /\ adds' = CleanCart(adds_to_cart, MonthOrderOf(session_counts))
    /\ pc' = "cleaned"
    /\ UNCHANGED <<session_counts, adds_to_cart, observed, month_device_agg, browser,
                   mtm_compare, month_device_with_totals, written>>

clean_tables_raises ==
    /\ pc = "start"
    /\ CleanTablesRaises(session_counts, adds_to_cart)
    /\ Failed
    /\ UNCHANGED <<session_counts, adds_to_cart, observed, sc, adds, month_order,
                   month_device_agg, browser, mtm_compare, month_device_with_totals,
                   written>>

\* ----------------------------------------------------- create_month_device

\* lines 97-99: the hard-coded month_order of create_month_device.
FiscalMonthOrder == <<"July", "August", "September", "October", "November",
                      "December", "January", "February", "March", "April", "May",
                      "June">>

\* md['month_name'] = pd.Categorical(md['month_name'], categories, ordered=True):
\* the frame md with its month_name column re-typed, in place.
SetMonthCategories(md, categories) ==
    [md EXCEPT !.rows = [i \in 1..Len(md.rows) |->
                           [md.rows[i] EXCEPT
                              !.month_name = AsCategory(md.rows[i].month_name, categories)]],
               !.cats = categories]

SumCol(rows, col) == SumSeq([i \in 1..Len(rows) |-> rows[i][col]])

\* grouped['ECR'] = grouped['transactions'] / grouped['sessions']
EcrOf(transactions, sessions) == FDiv(Flt(transactions), Flt(sessions))

\* The code (position) of a month name in a category list; NaN sorts last.
MonthCode(categories, m) ==
    IF m \in Range(categories) THEN IndexOf(categories, m) ELSE Len(categories) + 1

\* The distinct values of a text column in string order.
SortedValues(rows, col) ==
    SelectSeq(SortedText, LAMBDA v : \E i \in 1..Len(rows) : rows[i][col] = v)

\* One row of .agg({'sessions': 'sum', 'transactions': 'sum', 'QTY': 'sum'}) with
\* the ECR column added.
AggRow(key, members) ==
    key @@ [sessions |-> SumCol(members, "sessions"),
            transactions |-> SumCol(members, "transactions"),
            QTY |-> SumCol(members, "QTY"),
            ECR |-> EcrOf(SumCol(members, "transactions"), SumCol(members, "sessions"))]

\* The keys of groupby(['month_name', 'dim_deviceCategory']): with observed=False
\* every category of month_name with every device value of the data, otherwise
\* the pairs that occur; both in (category, device) order.
MonthDeviceKeys(md, obs) ==
    LET months == md.cats
        devs   == SortedValues(md.rows, "dim_deviceCategory")
        all    == [k \in 1..(Len(months) * Len(devs)) |->
                     [month_name |-> months[((k - 1) \div Len(devs)) + 1],
                      dim_deviceCategory |-> devs[((k - 1) % Len(devs)) + 1]]]
    IN  IF obs THEN SelectSeq(all, LAMBDA key : \E i \in 1..Len(md.rows) :
                          /\ md.rows[i].month_name = key.month_name
                          /\ md.rows[i].dim_deviceCategory = key.dim_deviceCategory)
        ELSE all

\* lines 105-108 on the re-typed frame md.
GroupMonthDevice(md, obs) ==
    LET keys == MonthDeviceKeys(md, obs)
    IN  [cols |-> {"month_name", "dim_deviceCategory", "sessions", "transactions",
                   "QTY", "ECR"},
         rows |-> [k \in 1..Len(keys) |->
                     AggRow(keys[k],
                            SelectSeq(md.rows, LAMBDA r :
                                /\ r.month_name = keys[k].month_name
                                /\ r.dim_deviceCategory = keys[k].dim_deviceCategory))],
         cats |-> md.cats]

\* The columns create_month_device reads after re-typing month_name.
MonthDeviceRaises(md) ==
    {"dim_deviceCategory", "sessions", "transactions", "QTY"} \ md.cols # {}

\* line 259: month_device_agg = create_month_device(sc); md is sc itself, so
\* line 102 re-types the month_name column of sc.
create_month_device ==
    /\ pc = "cleaned"
    /\ ~MonthDeviceRaises(sc)
    /\ sc' = SetMonthCategories(sc, FiscalMonthOrder)
    /\ month_device_agg' = GroupMonthDevice(SetMonthCategories(sc, FiscalMonthOrder),
                                            observed)
    /\ pc' = "month_device"
    /\ UNCHANGED <<session_counts, adds_to_cart, observed, adds, month_order, browser,
                   mtm_compare, month_device_with_totals, written>>

create_month_device_raises ==
    /\ pc = "cleaned"
    /\ MonthDeviceRaises(sc)
    /\ sc' = SetMonthCategories(sc, FiscalMonthOrder)
    /\ Failed
    /\ UNCHANGED <<session_counts, adds_to_cart, observed, adds, month_order,
                   month_device_agg, browser, mtm_compare, month_device_with_totals,
                   written>>

\* --------------------------------------------------- create_browser_device

\* lines 140-143: groupby(['dim_browser']), keys in string order.
GroupBrowser(md) ==
    LET keys == SortedValues(md.rows, "dim_browser")
    IN  [cols |-> {"dim_browser", "sessions", "transactions", "QTY", "ECR"},
         rows |-> [k \in 1..Len(keys) |->
                     AggRow([dim_browser |-> keys[k]],
                            SelectSeq(md.rows, LAMBDA r : r.dim_browser = keys[k]))],
         cats |-> <<>>]

BrowserRaises(md) == {"dim_browser", "sessions", "transactions", "QTY"} \ md.cols # {}

\* line 263: the row cap of the browser ranking.
TopBrowsers == 20

Arrangements(n) == {p \in [1..n -> 1..n] : \A i, j \in 1..n : i # j => p[i] # p[j]}

\* sort_values('sessions', ascending=False) with the default kind='quicksort',
\* which is not a stable sort: every arrangement of the rows in non-increasing
\* sessions order is a possible result.
SortBySessionsDesc(rows) ==
    { Take(rows, p) : p \in { q \in Arrangements(Len(rows)) :
          \A i \in 1..(Len(rows) - 1) : rows[q[i]].sessions >= rows[q[i + 1]].sessions } }

\* lines 262-263
create_browser_device ==
    /\ pc = "month_device"
    /\ ~BrowserRaises(sc)
    /\ \E sorted \in SortBySessionsDesc(GroupBrowser(sc).rows) :
          browser' = [GroupBrowser(sc) EXCEPT !.rows = FirstK(sorted, TopBrowsers)]
    /\ pc' = "browser"
    /\ UNCHANGED <<session_counts, adds_to_cart, observed, sc, adds, month_order,
                   month_device_agg, mtm_compare, month_device_with_totals, written>>

create_browser_device_raises ==
    /\ pc = "month_device"
    /\ BrowserRaises(sc)
    /\ Failed
    /\ UNCHANGED <<session_counts, adds_to_cart, observed, sc, adds, month_order,
                   month_device_agg, browser, mtm_compare, month_device_with_totals,
                   written>>

\* ------------------------------------------------------ filter_last_months

\* line 62: the number of trailing months kept.
LastMonths == 3

\* line 59: df.sort_values(by=['Year', 'month_name']), a stable sort on the year
\* and then on the category code of month_name.
SortByYearMonth(df) ==
    Take(df.rows, ArgSort([i \in 1..Len(df.rows) |->
             df.rows[i].Year * (Len(df.cats) + 2) + MonthCode(df.cats, df.rows[i].month_name)]))

\* lines 59-67
filter_last_months(df) ==
    LET sorted      == SortByYearMonth(df)
        last_months == LastK(Unique([i \in 1..Len(sorted) |-> sorted[i].month_name]),
                             LastMonths)
    IN  [df EXCEPT !.rows = SelectSeq(sorted, LAMBDA r : r.month_name \in Range(last_months))]

\* ------------------------------------------------------ create_mtm_compare

\* The keys of groupby(['month_name']): with observed=False every category,
\* otherwise the categories that occur; in category order.
MonthKeys(df, obs) ==
    IF obs THEN SelectSeq(df.cats, LAMBDA m : \E i \in 1..Len(df.rows) : df.rows[i].month_name = m)
    ELSE df.cats

\* lines 174-177
GroupMonth(df, obs) ==
    LET keys == MonthKeys(df, obs)
    IN  [k \in 1..Len(keys) |->
           AggRow([month_name |-> keys[k]],
                  SelectSeq(df.rows, LAMBDA r : r.month_name = keys[k]))]

\* line 180: fillna(0, inplace=True)
FillNaRow(r) == [r EXCEPT !.ECR = FillNa0(r.ECR)]

\* line 181: the row mask (last_three_grouped != 0).all(axis=1)
KeepRow(r) ==
    /\ r.sessions # 0
    /\ r.transactions # 0
    /\ r.QTY # 0
    /\ r.ECR # Flt(0)

\* how='left' in place of how='inner': a left row without a match is kept, its
\* addsToCart missing.
RECURSIVE LeftJoin(_, _)
LeftJoin(left, right) ==
    IF left = <<>> THEN <<>>
    ELSE LET l == Head(left)
             m == SelectSeq(right, LAMBDA r : r.month_name = l.month_name
                                                /\ r.month_name # NoCategory)
         IN  (IF m = <<>> THEN << l @@ [addsToCart |-> NaN] >>
              ELSE [i \in 1..Len(m) |-> l @@ [addsToCart |-> Flt(m[i].addsToCart)]])
             \o LeftJoin(Tail(left), right)

\* line 184: merge(adds[['month_name', 'addsToCart']], on=['month_name'],
\* how='inner'): the left rows in order, each with its matching right rows in
\* order (a NaN key matches nothing).  addsToCart is held as a float.
RECURSIVE InnerJoin(_, _)
InnerJoin(left, right) ==
    IF left = <<>> THEN <<>>
    ELSE LET l == Head(left)
             m == SelectSeq(right, LAMBDA r : r.month_name = l.month_name
                                                /\ r.month_name # NoCategory)
         IN  [i \in 1..Len(m) |-> l @@ [addsToCart |-> Flt(m[i].addsToCart)]]
             \o InnerJoin(Tail(left), right)

\* Series.diff()
Diff(v) == [i \in 1..Len(v) |-> IF i = 1 THEN NaN ELSE FSub(v[i], v[i - 1])]

\* Series.pct_change() * 100, pct_change being v / v.shift(1) - 1
PctChange100(v) ==
    [i \in 1..Len(v) |->
        IF i = 1 THEN NaN
        ELSE FMul(FSub(FDiv(v[i], v[i - 1]), Flt(1)), Flt(100))]

\* line 187: the metrics in the order the loop treats them.
Metrics == <<"sessions", "transactions", "QTY", "ECR", "addsToCart">>

\* lines 196-200: the column layout, which the transpose makes the row labels.
MtmLabels ==
    <<"sessions", "sessions_abs_change", "sessions_pct_change",
      "addsToCart", "addsToCart_abs_change", "addsToCart_pct_change",
      "transactions", "transactions_abs_change", "transactions_pct_change",
      "QTY", "QTY_abs_change", "QTY_pct_change",
      "ECR", "ECR_abs_change", "ECR_pct_change">>

AbsLabel(col) ==
    CASE col = "sessions" -> "sessions_abs_change"
      [] col = "transactions" -> "transactions_abs_change"
      [] col = "QTY" -> "QTY_abs_change"
      [] col = "ECR" -> "ECR_abs_change"
      [] col = "addsToCart" -> "addsToCart_abs_change"

PctLabel(col) ==
    CASE col = "sessions" -> "sessions_pct_change"
      [] col = "transactions" -> "transactions_pct_change"
      [] col = "QTY" -> "QTY_pct_change"
      [] col = "ECR" -> "ECR_pct_change"
      [] col = "addsToCart" -> "addsToCart_pct_change"

\* lines 187-203: the joined rows with their change columns, transposed: a
\* matrix with the months as columns and MtmLabels as rows.
ChangeMatrix(joined) ==
    LET column(col) == [i \in 1..Len(joined) |->
                          IF col \in {"ECR", "addsToCart"} THEN joined[i][col]
                          ELSE Flt(joined[i][col])]
        byLabel == [l \in Range(MtmLabels) |->
                      IF l \in Range(Metrics) THEN column(l)
                      ELSE LET col == CHOOSE c \in Range(Metrics) :
                                          l \in {AbsLabel(c), PctLabel(c)}
                           IN  IF l = AbsLabel(col) THEN Diff(column(col))
                               ELSE PctChange100(column(col))]
    IN  [columns |-> [i \in 1..Len(joined) |-> joined[i].month_name],
         index |-> MtmLabels,
         cell |-> byLabel]

\* lines 174-181: the monthly rows that reach the merge.
LastThreeGrouped(session_cts, obs) ==
    LET g == GroupMonth(filter_last_months(session_cts), obs)
    IN  SelectSeq([i \in 1..Len(g) |-> FillNaRow(g[i])], KeepRow)

MtmCompare(session_cts, cart, obs) ==
    ChangeMatrix(InnerJoin(LastThreeGrouped(session_cts, obs), cart.rows))

MtmRaises(session_cts, cart) ==
    \/ {"Year", "month_name", "sessions", "transactions", "QTY"} \ session_cts.cols # {}
    \/ {"month_name", "addsToCart"} \ cart.cols # {}

\* line 266
create_mtm_compare ==
    /\ pc = "browser"
    /\ ~MtmRaises(sc, adds)
    /\ mtm_compare' = MtmCompare(sc, adds, observed)
    /\ pc' = "mtm"
    /\ UNCHANGED <<session_counts, adds_to_cart, observed, sc, adds, month_order,
                   month_device_agg, browser, month_device_with_totals, written>>

create_mtm_compare_raises ==
    /\ pc = "browser"
    /\ MtmRaises(sc, adds)
    /\ Failed
    /\ UNCHANGED <<session_counts, adds_to_cart, observed, sc, adds, month_order,
                   month_device_agg, browser, mtm_compare, month_device_with_totals,
                   written>>

\* ---------------------------------------------- create_month_device_totals

\* line 232: the order of device categories (including 'Total') for sorting.
order == <<"Desktop", "Mobile", "Tablet", "Total">>

\* lines 223-226: groupby('month_name').sum() over the flat month/device rows
\* (every column is summed, ECR included), tagged 'Total'.
Totals(month_device, obs) ==
    LET keys == MonthKeys(month_device, obs)
    IN  [k \in 1..Len(keys) |->
           LET members == SelectSeq(month_device.rows,
                                    LAMBDA r : r.month_name = keys[k])
           IN  [month_name |-> keys[k],
                dim_deviceCategory |-> "Total",
                sessions |-> SumCol(members, "sessions"),
                transactions |-> SumCol(members, "transactions"),
                QTY |-> SumCol(members, "QTY"),
                ECR |-> FSumSkipNa([i \in 1..Len(members) |-> members[i].ECR])]]

\* lines 235-236: dim_deviceCategory re-typed as a categorical over order.
SetDeviceCategories(rows) ==
    [i \in 1..Len(rows) |->
        [rows[i] EXCEPT !.dim_deviceCategory = AsCategory(rows[i].dim_deviceCategory, order)]]

\* lines 239-240: sort_values(by=['month_name', 'dim_deviceCategory']), a stable
\* sort on the two category codes, NaN last.
SortByMonthDevice(rows, categories) ==
    Take(rows, ArgSort([i \in 1..Len(rows) |->
             MonthCode(categories, rows[i].month_name) * (Len(order) + 2)
               + MonthCode(order, rows[i].dim_deviceCategory)]))

\* lines 220-245
MonthDeviceTotals(month_device, obs) ==
    [month_device EXCEPT
       !.rows = SortByMonthDevice(
                    SetDeviceCategories(month_device.rows \o Totals(month_device, obs)),
                    month_device.cats)]

\* line 269
create_month_device_totals ==
    /\ pc = "mtm"
    /\ month_device_with_totals' = MonthDeviceTotals(month_device_agg, observed)
    /\ pc' = "totals"
    /\ UNCHANGED <<session_counts, adds_to_cart, observed, sc, adds, month_order,
                   month_device_agg, browser, mtm_compare, written>>

\* ------------------------------------------------------------ the writer

\* lines 274-277: the sheets in the order they are written.
SheetNames == <<"Month Device Agg", "Month to Month Comparison", "Top 20 Browsers",
                "Month Aggs with Total">>

\* The writer block entered before the last two tables are computed.
WriterOpenEarly == pc \in {"browser", "mtm", "totals"}

\* line 272: the ExcelWriter block is entered once line 269 has returned.
WriterOpen == pc = "totals"

\* lines 274-277: one to_excel call; the block is left after the fourth.
to_excel ==
    /\ WriterOpen
    /\ Len(written) < Len(SheetNames)
    /\ written' = Append(written, SheetNames[Len(written) + 1])
    /\ pc' = IF Len(written') = Len(SheetNames) THEN "done" ELSE pc
    /\ UNCHANGED <<session_counts, adds_to_cart, observed, sc, adds, month_order,
                   month_device_agg, browser, mtm_compare, month_device_with_totals>>

Next ==
    \/ clean_tables
    \/ clean_tables_raises
    \/ create_month_device
    \/ create_month_device_raises
    \/ create_browser_device
    \/ create_browser_device_raises
    \/ create_mtm_compare
    \/ create_mtm_compare_raises
    \/ create_month_device_totals
    \/ to_excel

Spec == Init /\ [][Next]_vars

\* ------------------------------------------------------------------ claims

\* Reference values read off the raw CSVs (meaningful once clean_tables has
\* returned, when every date is well formed).
Computed(stages) == pc \in stages

AfterMonthDevice == {"month_device", "browser", "mtm", "totals", "done"}

AfterBrowser == {"browser", "mtm", "totals", "done"}

AfterMtm == {"mtm", "totals", "done"}

AfterTotals == {"totals", "done"}

RawRows == session_counts.rows

RawMonth(r) == MonthNames[r.dim_date[1]]

SessionMonths == {RawMonth(RawRows[i]) : i \in 1..Len(RawRows)}

CartMonths ==
    {MonthNames[adds_to_cart.rows[i].dim_month] : i \in 1..Len(adds_to_cart.rows)}

RawSum(S, col) == SumSeq([i \in 1..Len(RawRows) |-> IF i \in S THEN RawRows[i][col] ELSE 0])

\* C1: the Totals Augmenter's result holds every row of the Device/Category
\* table with its month, device category and sums unchanged, plus exactly one
\* 'Total' row for each month present, whose sessions, transactions and QTY
\* are the sums over that month's non-Total rows.
C1_TotalsAugmenter ==
    Computed(AfterTotals) =>
        LET inp == month_device_agg.rows
            out == month_device_with_totals.rows
            months == {inp[i].month_name : i \in 1..Len(inp)}
            totalAt(m) == {j \in 1..Len(out) : /\ out[j].month_name = m
                                                /\ out[j].dim_deviceCategory = "Total"}
            others(m) == SelectSeq(out, LAMBDA r : /\ r.month_name = m
                                                    /\ r.dim_deviceCategory # "Total")
        IN  /\ \A i \in 1..Len(inp) : \E j \in 1..Len(out) :
                  /\ out[j].month_name = inp[i].month_name
                  /\ out[j].dim_deviceCategory = inp[i].dim_deviceCategory
                  /\ out[j].sessions = inp[i].sessions
                  /\ out[j].transactions = inp[i].transactions
                  /\ out[j].QTY = inp[i].QTY
            /\ Len(out) = Len(inp) + Cardinality(months)
            /\ \A m \in months :
                  /\ Cardinality(totalAt(m)) = 1
                  /\ \A j \in totalAt(m) :
                        /\ out[j].sessions = SumCol(others(m), "sessions")
                        /\ out[j].transactions = SumCol(others(m), "transactions")
                        /\ out[j].QTY = SumCol(others(m), "QTY")

EcrAsSpecified(r) ==
    r.ECR = IF r.sessions = 0 THEN NaN ELSE Rat(r.transactions, r.sessions)

\* C2: in every row of the Device/Category table, of the Browser table and of
\* the Totals-augmented table (Total rows included), ECR is that row's
\* transactions / sessions, and NaN whenever its sessions are 0.
C2_EcrOfEveryRow ==
    /\ \A i \in 1..Len(month_device_agg.rows) : EcrAsSpecified(month_device_agg.rows[i])
    /\ \A i \in 1..Len(browser.rows) : EcrAsSpecified(browser.rows[i])
    /\ \A i \in 1..Len(month_device_with_totals.rows) :
          EcrAsSpecified(month_device_with_totals.rows[i])

\* C3: in the comparison matrix the first month column has undefined abs_change
\* and pct_change for all five metrics; in every later column abs_change is the
\* value minus the value of the column before it and pct_change is
\* (value - previous) / previous * 100, the column before it being the previous
\* month, in the month order of the session data, among the surviving months.
C3_TrendDeltas ==
    Computed(AfterMtm) =>
        LET cols == mtm_compare.columns
            val(c, j) == mtm_compare.cell[c][j]
        IN  /\ cols # <<>> =>
                  \A c \in Range(Metrics) :
                      /\ IsNaN(mtm_compare.cell[AbsLabel(c)][1])
                      /\ IsNaN(mtm_compare.cell[PctLabel(c)][1])
            /\ \A j \in 2..Len(cols) :
                  /\ \A c \in Range(Metrics) :
                        /\ mtm_compare.cell[AbsLabel(c)][j] = FSub(val(c, j), val(c, j - 1))
                        /\ mtm_compare.cell[PctLabel(c)][j] =
                              FMul(FDiv(FSub(val(c, j), val(c, j - 1)), val(c, j - 1)),
                                   Flt(100))
                  /\ IndexOf(month_order, cols[j - 1]) < IndexOf(month_order, cols[j])
                  /\ ~ \E k \in 1..Len(cols) :
                        /\ IndexOf(month_order, cols[j - 1]) < IndexOf(month_order, cols[k])
                        /\ IndexOf(month_order, cols[k]) < IndexOf(month_order, cols[j])

RawBrowsers == {RawRows[i].dim_browser : i \in 1..Len(RawRows)}

MinOf(a, b) == IF a < b THEN a ELSE b

\* C4: the Browser table has min(20, number of browsers) rows, one per browser
\* with its sums over all months, in non-increasing order of sessions, no omitted
\* browser having more sessions than an included one, and rows with equal
\* sessions in the order they had before the sort (the order of the grouping,
\* by browser name).
C4_BrowserRanking ==
    Computed(AfterBrowser) =>
        LET rows == browser.rows
            of(b) == {i \in 1..Len(RawRows) : RawRows[i].dim_browser = b}
            shown == {rows[i].dim_browser : i \in 1..Len(rows)}
        IN  /\ Len(rows) = MinOf(TopBrowsers, Cardinality(RawBrowsers))
            /\ Cardinality(shown) = Len(rows)
            /\ \A i \in 1..Len(rows) :
                  /\ rows[i].dim_browser \in RawBrowsers
                  /\ rows[i].sessions = RawSum(of(rows[i].dim_browser), "sessions")
                  /\ rows[i].transactions = RawSum(of(rows[i].dim_browser), "transactions")
                  /\ rows[i].QTY = RawSum(of(rows[i].dim_browser), "QTY")
            /\ \A i \in 1..(Len(rows) - 1) : rows[i].sessions >= rows[i + 1].sessions
            /\ \A b \in RawBrowsers \ shown : \A i \in 1..Len(rows) :
                  RawSum(of(b), "sessions") <= rows[i].sessions
            /\ \A i, j \in 1..Len(rows) :
                  (i < j /\ rows[i].sessions = rows[j].sessions)
                      => TextLess(rows[i].dim_browser, rows[j].dim_browser)

InputIsWellFormed ==
    /\ session_counts.cols = SessionCols
    /\ adds_to_cart.cols = CartCols
    /\ \A i \in 1..Len(RawRows) :
          Len(RawRows[i].dim_date) >= 3 /\ RawRows[i].dim_date[1] \in 1..12
    /\ \A i \in 1..Len(adds_to_cart.rows) : adds_to_cart.rows[i].dim_month \in 1..12

\* C5: every month column of the comparison is a month that occurs in the
\* session data and in the cart-add data (a cart-add month absent from the
\* session data never appears), and a run on well-formed tables never fails,
\* whichever months each table holds.
C5_MonthDomain ==
    /\ Computed(AfterMtm) =>
          \A j \in 1..Len(mtm_compare.columns) :
              /\ mtm_compare.columns[j] \in SessionMonths
              /\ mtm_compare.columns[j] \in CartMonths
    /\ InputIsWellFormed => pc # "failed"

C5_Witness ==
    /\ pc = "done"
    /\ mtm_compare.columns # <<>>
    /\ CartMonths \ SessionMonths # {}
    /\ SessionMonths \ CartMonths # {}

RawPairs == {<<RawMonth(RawRows[i]), Title(RawRows[i].dim_deviceCategory)>> :
               i \in 1..Len(RawRows)}

\* C6: the Device/Category table has exactly one row per (month, device
\* category) pair of the session rows and none for another pair, each with the
\* sums over that pair's rows, ordered by the month ordering derived from the
\* session data (first appearance) and then by device category.
C6_MonthDeviceRows ==
    Computed(AfterMonthDevice) =>
        LET rows == month_device_agg.rows
            of(m, d) == {i \in 1..Len(RawRows) :
                            /\ RawMonth(RawRows[i]) = m
                            /\ Title(RawRows[i].dim_deviceCategory) = d}
            rank(r) == IndexOf(month_order, r.month_name) * (Len(SortedText) + 1)
                         + IndexOf(SortedText, r.dim_deviceCategory)
        IN  /\ Len(rows) = Cardinality(RawPairs)
            /\ \A i \in 1..Len(rows) :
                  /\ <<rows[i].month_name, rows[i].dim_deviceCategory>> \in RawPairs
                  /\ rows[i].sessions =
                        RawSum(of(rows[i].month_name, rows[i].dim_deviceCategory), "sessions")
                  /\ rows[i].transactions =
                        RawSum(of(rows[i].month_name, rows[i].dim_deviceCategory), "transactions")
                  /\ rows[i].QTY =
                        RawSum(of(rows[i].month_name, rows[i].dim_deviceCategory), "QTY")
            /\ \A i \in 1..(Len(rows) - 1) : rank(rows[i]) < rank(rows[i + 1])

AllZero(r) ==
    r.sessions = 0 /\ r.transactions = 0 /\ r.QTY = 0 /\ r.ECR = Flt(0)

\* C7: after missing values are replaced by 0, a month row of the grouped table
\* is dropped exactly when every numeric column is 0; a month with a non-zero
\* column (sessions > 0 and transactions = 0, say) is kept and, when the
\* cart-add data has it, appears in the comparison.
C7_DropsOnlyEmptyMonths ==
    Computed(AfterMtm) =>
        LET g == GroupMonth(filter_last_months(sc), observed)
            filled == [i \in 1..Len(g) |-> FillNaRow(g[i])]
        IN  \A i \in 1..Len(filled) :
                (~AllZero(filled[i]) /\ filled[i].month_name \in CartMonths)
                    <=> filled[i].month_name \in Range(mtm_compare.columns)

\* The (Year, month number) pairs of the session data, and the latest k of them.
RawPeriods == {RawRows[i].dim_date[3] * 12 + RawRows[i].dim_date[1] : i \in 1..Len(RawRows)}

LatestPeriods(k) ==
    {p \in RawPeriods : Cardinality({q \in RawPeriods : q > p}) < k}

\* C8: the rows the trend window selects (filter_last_months on the session
\* table as create_mtm_compare receives it) are exactly the rows of the
\* min(3, k) chronologically latest of the k distinct months of the data.
C8_TrendWindow ==
    pc = "browser" =>
        Range(filter_last_months(sc).rows) =
            {r \in Range(sc.rows) : (r.Year - 2000) * 12 + r.Month \in LatestPeriods(LastMonths)}

\* C9: the session table that reaches the Browser Aggregator and the Trend
\* Comparator is the table the Time Normalizer produced: same MonthName values,
\* same month category domain and order.
C9_SessionTableUnchanged ==
    Computed(AfterMonthDevice) =>
        /\ sc.cats = month_order
        /\ sc = CleanSession(session_counts)

\* C10: a sheet reaches the writer only once all four tables are computed, so a
\* run in which a stage fails ends with no sheet written.
C10_NothingWrittenOnFailure ==
    /\ written # <<>> =>
          /\ pc \in {"totals", "done"}
          /\ month_device_agg # NoFrame
          /\ browser # NoFrame
          /\ mtm_compare # NoMatrix
          /\ month_device_with_totals # NoFrame
    /\ pc = "failed" => written = <<>>
    /\ pc = "done" => written = SheetNames

C10_Witness ==
    /\ pc = "failed"
    /\ month_device_agg # NoFrame
    /\ written = <<>>
====
